---- MODULE Spec2Model ----
(***************************************************************************)
(* A model of the radix trie of src/lib.rs (TrieNode and its entry API).   *)
(*                                                                         *)
(* A TrieNode is a record [segment, children, data]: segment is a sequence *)
(* of bytes, children a sequence of TrieNodes, data an Option, written     *)
(* <<>> for None and <<v>> for Some(v).  A raw pointer *mut TrieNode is    *)
(* the sequence of 0-based child indices that leads from the root to the   *)
(* node; indices into Vecs are kept 0-based as in the source.              *)
(***************************************************************************)
EXTENDS Integers, Sequences, FiniteSets, TLC

\* ---------------------------------------------------------------- bounds
\* at most MaxKeys keys are stored at a time
MaxKeys == 3
\* SpecHist makes at most MaxOps calls
MaxOps == 4

Bytes == {1, 2, 3}
Values == {1, 2}

\* The keys the calls are made with: the empty key, keys that are prefixes of
\* one another (1, 11, 111), keys that part inside a segment (11/12, 111/112),
\* and three distinct first bytes.
Keys ==
    {<<>>, <<1>>, <<2>>, <<3>>, <<1, 1>>, <<1, 2>>, <<2, 1>>,
     <<1, 1, 1>>, <<1, 1, 2>>}

\* The prefixes asked of prefix_len: every prefix of a key, and every key
\* with one more byte (longer than any key that is stored).
Probes ==
    UNION {{SubSeq(k, 1, n) : n \in 0..Len(k)} : k \in Keys}
        \cup {Append(k, b) : k \in Keys, b \in Bytes}

None == <<>>
Some(v) == <<v>>

VARIABLES
    root,       \* the TrieNode the caller owns
    ref,        \* reference map Keys -> Option, updated as a map would be
    count,      \* inserts that returned None minus removes that returned Some
    removed,    \* has a remove returned Some yet
    ever,       \* the distinct keys ever inserted
    nRemoved,   \* the number of removes that returned Some
    nOps        \* the number of calls made (counted in SpecHist only)

vars == <<root, ref, count, removed, ever, nRemoved, nOps>>

\* ------------------------------------------------------------ Vec helpers
Drop(s, n) == SubSeq(s, n + 1, Len(s))
Take(s, n) == SubSeq(s, 1, n)
VecInsert(s, i, x) == Take(s, i) \o <<x>> \o Drop(s, i)
VecRemove(s, i) == Take(s, i) \o Drop(s, i + 1)

\* ------------------------------------------------------------- TrieNode
TrieNode_new == [segment |-> <<>>, children |-> <<>>, data |-> None]

\* *ptr
RECURSIVE Deref(_, _)
Deref(t, ptr) ==
    IF ptr = <<>> THEN t ELSE Deref(t.children[ptr[1] + 1], Tail(ptr))

\* *ptr = n
RECURSIVE Store(_, _, _)
Store(t, ptr, n) ==
    IF ptr = <<>> THEN n
    ELSE [t EXCEPT !.children[ptr[1] + 1] = Store(@, Tail(ptr), n)]

RECURSIVE common_prefix(_, _)
common_prefix(lhs, rhs) ==
    IF lhs # <<>> /\ rhs # <<>> /\ Head(lhs) = Head(rhs)
    THEN 1 + common_prefix(Tail(lhs), Tail(rhs))
    ELSE 0

\* SearchKey: [base, offset]
SearchKey_as_ref(key) == Drop(key.base, key.offset)
SearchKey_consume(key, size) == [key EXCEPT !.offset = @ + size]
SearchKey_first(key) == key.base[key.offset + 1]
SearchKey_is_empty(key) == Len(key.base) = key.offset

\* children.binary_search_by(|k| k.segment[0].cmp(&b)): [ok, i], Ok(i) at a
\* child whose first byte is b, else Err(i) at the place to insert one.
RECURSIVE binary_search(_, _, _, _)
binary_search(children, b, base, lim) ==
    IF lim = 0 THEN [ok |-> FALSE, i |-> base]
    ELSE LET ix == base + (lim \div 2)
             first == children[ix + 1].segment[1]
         IN IF first = b THEN [ok |-> TRUE, i |-> ix]
            ELSE IF first < b
                 THEN binary_search(children, b, ix + 1, (lim - 1) \div 2)
                 ELSE binary_search(children, b, base, lim \div 2)

RECURSIVE search_node(_, _, _)
search_node(t, node, key0) ==
    LET n == Deref(t, node)
        prefix_size == common_prefix(n.segment, SearchKey_as_ref(key0))
        key == SearchKey_consume(key0, prefix_size)
    IN IF prefix_size # Len(n.segment)
       THEN [found |-> FALSE, node |-> node,
             pos |-> [type |-> "Edge", at |-> prefix_size], left |-> key]
       ELSE IF ~SearchKey_is_empty(key)
       THEN LET r == binary_search(n.children, SearchKey_first(key), 0, Len(n.children))
            IN IF r.ok
               THEN LET e == search_node(t, Append(node, r.i), key)
                    IN IF e.found
                       THEN [e EXCEPT !.levels = Append(@, <<node, r.i>>)]
                       ELSE e
               ELSE [found |-> FALSE, node |-> node,
                     pos |-> [type |-> "Child", at |-> r.i], left |-> key]
       ELSE IF n.data = None
       THEN [found |-> FALSE, node |-> node,
             pos |-> [type |-> "Leaf", at |-> 0],
             left |-> [base |-> <<>>, offset |-> 0]]
       ELSE [found |-> TRUE, node |-> node, key |-> key, levels |-> <<>>]

RECURSIVE len(_)
\* A faulty variant of len: a node that has children is not counted itself.
len_leaves_only(n) ==
    LET RECURSIVE fold(_, _)
        fold(i, sum) == IF i > Len(n.children) THEN sum
                        ELSE fold(i + 1, sum + len(n.children[i]))
    IN fold(1, 0) + (IF n.data = None \/ n.children # <<>> THEN 0 ELSE 1)

len(n) ==
    LET RECURSIVE fold(_, _)
        fold(i, sum) == IF i > Len(n.children) THEN sum
                        ELSE fold(i + 1, sum + len(n.children[i]))
    IN fold(1, 0) + (IF n.data = None THEN 0 ELSE 1)

is_empty(n) == n.data = None /\ n.children = <<>>

\* A faulty variant of NotFound::prefix_len: a prefix that ends inside a segment counts
\* nothing.
NotFound_prefix_len_edge_zero(t, f) ==
    IF f.pos.type = "Child" \/ f.pos.type = "Edge" THEN 0
    ELSE len(Deref(t, f.node))

\* NotFound::prefix_len
NotFound_prefix_len(t, f) ==
    IF f.pos.type = "Child" THEN 0
    ELSE IF f.pos.type = "Edge"
    THEN (IF SearchKey_is_empty(f.left) THEN len(Deref(t, f.node)) ELSE 0)
    ELSE len(Deref(t, f.node))

\* Found::len
Found_len(t, f) == len(Deref(t, f.node))

RECURSIVE prune(_, _)
\* A faulty variant of the loop: it stops only at an ancestor that holds a value.
prune_ignores_children(t, levels) ==
    IF levels = <<>> THEN t
    ELSE LET l == levels[1][1]
             pos == levels[1][2]
             node == [Deref(t, l) EXCEPT !.children = VecRemove(@, pos)]
             t2 == Store(t, l, node)
         IN IF node.data # None
            THEN t2
            ELSE prune(t2, Tail(levels))

\* The loop of remove_entry over the remaining levels.  levels holds the
\* parent of the node first and the root last; removing a child of l leaves
\* the pointers to the ancestors of l (prefixes of l) as they were.
prune(t, levels) ==
    IF levels = <<>> THEN t
    ELSE LET l == levels[1][1]
             pos == levels[1][2]
             node == [Deref(t, l) EXCEPT !.children = VecRemove(@, pos)]
             t2 == Store(t, l, node)
         IN IF node.children # <<>> \/ node.data # None
            THEN t2
            ELSE prune(t2, Tail(levels))

\* A faulty variant of remove_entry: the value is read but not taken out of a node that
\* is kept.
remove_entry_keeps_data(t, ptr, levels) ==
    LET node == Deref(t, ptr)
        data == node.data[1]
        t1 == Store(t, ptr, [node EXCEPT !.data = None])
    IN IF levels = <<>> \/ node.children # <<>>
       THEN [root |-> t, data |-> data]
       ELSE [root |-> prune(t1, levels), data |-> data]

\* A faulty variant of remove_entry: it never prunes.
remove_entry_never_prunes(t, ptr, levels) ==
    LET node == Deref(t, ptr)
    IN [root |-> Store(t, ptr, [node EXCEPT !.data = None]), data |-> node.data[1]]

\* remove_entry(node, levels): [root, data]
remove_entry(t, ptr, levels) ==
    LET node == Deref(t, ptr)
        data == node.data[1]
        t1 == Store(t, ptr, [node EXCEPT !.data = None])
    IN IF levels = <<>> \/ node.children # <<>>
       THEN [root |-> t1, data |-> data]
       ELSE [root |-> prune(t1, levels), data |-> data]

\* Found::remove: [root, key, data]
Found_remove(t, f) ==
    LET c == remove_entry(t, f.node, f.levels)
    IN [root |-> c.root, key |-> f.key.base, data |-> c.data]

\* TrieNode::entry: an Occupied or a Vacant entry
entry(t, key) ==
    LET f == search_node(t, <<>>, [base |-> key, offset |-> 0])
    IN IF f.found
       THEN [kind |-> "Occupied", node |-> f.node, key |-> f.key.base,
             levels |-> f.levels]
       ELSE [kind |-> "Vacant", node |-> f.node, key |-> f.left.base,
             pos |-> f.pos, key_off |-> f.left.offset]

\* The new child of VacantEntry::insert and its insertion at pos.
insert_child(t, e, node, pos, val) ==
    LET child == [segment |-> IF e.key_off = 0 THEN e.key ELSE Drop(e.key, e.key_off),
                  children |-> <<>>,
                  data |-> Some(val)]
    IN [root |-> Store(t, e.node, [node EXCEPT !.children = VecInsert(@, pos, child)]),
        at |-> Append(e.node, pos)]

\* A faulty variant of edge_pos: the comparison is the wrong way round.
edge_pos_flipped(split, e) ==
    IF split.children[1].segment[1] <= e.key[e.key_off + 1] THEN 0 ELSE 1

\* The index of the new child beside the split child (Edge, key bytes left).
edge_pos(split, e) ==
    IF split.children[1].segment[1] <= e.key[e.key_off + 1] THEN 1 ELSE 0

\* A faulty variant of VacantEntry::insert: when the key ends at the split point the
\* value is stored on the split child, not on the truncated node.
VacantEntry_insert_on_split_child(t, e, val) ==
    LET node == Deref(t, e.node)
    IN IF e.pos.type = "Edge"
       THEN LET pos == e.pos.at
                split_child == [segment |-> Drop(node.segment, pos),
                                children |-> node.children,
                                data |-> node.data]
                split == [segment |-> Take(node.segment, pos),
                          children |-> <<split_child>>,
                          data |-> None]
            IN IF Len(e.key) = e.key_off
               THEN [root |-> Store(t, e.node,
                                    [split EXCEPT !.children[1].data = Some(val)]),
                     at |-> Append(e.node, 0)]
               ELSE insert_child(t, e, split, edge_pos(split, e), val)
       ELSE IF e.pos.type = "Child"
       THEN insert_child(t, e, node, e.pos.at, val)
       ELSE [root |-> Store(t, e.node, [node EXCEPT !.data = Some(val)]),
             at |-> e.node]

\* VacantEntry::insert: [root, at], at the node whose data is referenced
VacantEntry_insert(t, e, val) ==
    LET node == Deref(t, e.node)
    IN IF e.pos.type = "Edge"
       THEN LET pos == e.pos.at
                split_child == [segment |-> Drop(node.segment, pos),
                                children |-> node.children,
                                data |-> node.data]
                split == [segment |-> Take(node.segment, pos),
                          children |-> <<split_child>>,
                          data |-> None]
            IN IF Len(e.key) = e.key_off
               THEN [root |-> Store(t, e.node, [split EXCEPT !.data = Some(val)]),
                     at |-> e.node]
               ELSE insert_child(t, e, split, edge_pos(split, e), val)
       ELSE IF e.pos.type = "Child"
       THEN insert_child(t, e, node, e.pos.at, val)
       ELSE [root |-> Store(t, e.node, [node EXCEPT !.data = Some(val)]),
             at |-> e.node]

\* VacantEntry::key, OccupiedEntry::key
VacantEntry_key(e) == e.key
OccupiedEntry_key(e) == e.key

\* A faulty variant of OccupiedEntry::insert: it returns the new value.
OccupiedEntry_insert_returns_new(t, e, val) ==
    LET node == Deref(t, e.node)
    IN [root |-> Store(t, e.node, [node EXCEPT !.data = Some(val)]),
        previous |-> val]

\* OccupiedEntry::insert: [root, previous]
OccupiedEntry_insert(t, e, val) ==
    LET node == Deref(t, e.node)
        previous == node.data[1]
    IN [root |-> Store(t, e.node, [node EXCEPT !.data = Some(val)]),
        previous |-> previous]

\* OccupiedEntry::into_mut: [root, at]
OccupiedEntry_into_mut(t, e) == [root |-> t, at |-> e.node]

\* A faulty variant of Entry::or_insert: an occupied entry is overwritten.
Entry_or_insert_overwrites(t, e, val) ==
    IF e.kind = "Vacant" THEN VacantEntry_insert(t, e, val)
    ELSE [root |-> Store(t, e.node, [Deref(t, e.node) EXCEPT !.data = Some(val)]),
          at |-> e.node]

\* Entry::or_insert: [root, at]
Entry_or_insert(t, e, val) ==
    IF e.kind = "Vacant" THEN VacantEntry_insert(t, e, val)
    ELSE OccupiedEntry_into_mut(t, e)

\* Entry::key
Entry_key(e) ==
    IF e.kind = "Vacant" THEN VacantEntry_key(e) ELSE OccupiedEntry_key(e)

\* TrieNode::insert: [root, ret]
insert(t, key, value) ==
    LET e == entry(t, key)
    IN IF e.kind = "Occupied"
       THEN LET o == OccupiedEntry_insert(t, e, value)
            IN [root |-> o.root, ret |-> Some(o.previous)]
       ELSE [root |-> VacantEntry_insert(t, e, value).root, ret |-> None]

\* TrieNode::prefix_len
prefix_len(t, prefix_key) ==
    LET f == search_node(t, <<>>, [base |-> prefix_key, offset |-> 0])
    IN IF f.found THEN Found_len(t, f) ELSE NotFound_prefix_len(t, f)

\* TrieNode::get
get(t, key) ==
    LET f == search_node(t, <<>>, [base |-> key, offset |-> 0])
    IN IF f.found THEN Deref(t, f.node).data ELSE None

\* TrieNode::remove: [root, ret]
remove(t, key) ==
    LET f == search_node(t, <<>>, [base |-> key, offset |-> 0])
    IN IF f.found
       THEN LET r == Found_remove(t, f)
            IN [root |-> r.root, ret |-> Some(r.data)]
       ELSE [root |-> t, ret |-> None]

\* ---------------------------------------------------------------- actions
Init ==
    /\ root = TrieNode_new
    /\ ref = [k \in Keys |-> None]
    /\ count = 0
    /\ removed = FALSE
    /\ ever = {}
    /\ nRemoved = 0
    /\ nOps = 0

\* trie.insert(key, value)
Insert(key, value) ==
    LET r == insert(root, key, value)
    IN /\ ref[key] # None \/ count < MaxKeys
       /\ root' = r.root
       /\ ref' = [ref EXCEPT ![key] = Some(value)]
       /\ count' = IF r.ret = None THEN count + 1 ELSE count
       /\ UNCHANGED removed

\* trie.remove(&key)
Remove(key) ==
    LET r == remove(root, key)
    IN /\ root' = r.root
       /\ ref' = [ref EXCEPT ![key] = None]
       /\ count' = IF r.ret = None THEN count ELSE count - 1
       /\ removed' = (removed \/ r.ret # None)

\* trie.entry(key).or_insert(value)
OrInsert(key, value) ==
    LET r == Entry_or_insert(root, entry(root, key), value)
    IN /\ ref[key] # None \/ count < MaxKeys
       /\ root' = r.root
       /\ ref' = [ref EXCEPT ![key] = IF @ = None THEN Some(value) ELSE @]
       /\ count' = IF ref[key] = None THEN count + 1 ELSE count
       /\ UNCHANGED removed

noHistory == UNCHANGED <<ever, nRemoved, nOps>>

DoInsert == \E k \in Keys, v \in Values : Insert(k, v) /\ noHistory
DoRemove == \E k \in Keys : Remove(k) /\ noHistory
DoOrInsert == \E k \in Keys, v \in Values : OrInsert(k, v) /\ noHistory

Next ==
    \/ DoInsert
    \/ DoRemove
    \/ DoOrInsert

Spec == Init /\ [][Next]_vars

\* Sequences of at most MaxOps insert and remove calls, with the history of
\* the keys inserted and of the removes that returned a value.
HistInsert ==
    \E k \in Keys, v \in Values :
        /\ nOps < MaxOps
        /\ Insert(k, v)
        /\ nOps' = nOps + 1
        /\ ever' = ever \cup {k}
        /\ UNCHANGED nRemoved

HistRemove ==
    \E k \in Keys :
        /\ nOps < MaxOps
        /\ Remove(k)
        /\ nOps' = nOps + 1
        /\ nRemoved' = IF remove(root, k).ret # None THEN nRemoved + 1 ELSE nRemoved
        /\ UNCHANGED ever

NextHist ==
    \/ HistInsert
    \/ HistRemove

SpecHist == Init /\ [][NextHist]_vars

\* ------------------------------------------------------ what the claims use
IsPrefix(p, k) == Len(p) <= Len(k) /\ SubSeq(k, 1, Len(p)) = p

\* the keys the reference map holds
Stored == {k \in Keys : ref[k] # None}

RECURSIVE NonRootNodes(_)
NonRootNodes(n) ==
    UNION {{n.children[i]} \cup NonRootNodes(n.children[i]) : i \in 1..Len(n.children)}

\* Every node under n as [key, segment, data, kids]: key is the concatenation
\* of the segments from the root to the node, kids the keys of its children.
RECURSIVE NodesUnder(_, _)
NodesUnder(n, prefix) ==
    LET k == prefix \o n.segment
    IN {[key |-> k, segment |-> n.segment, data |-> n.data,
         kids |-> {k \o n.children[i].segment : i \in 1..Len(n.children)}]}
       \cup UNION {NodesUnder(n.children[i], k) : i \in 1..Len(n.children)}

SearchPos(t, key) == search_node(t, <<>>, [base |-> key, offset |-> 0])

\* ----------------------------------------------------------------- claims
\* C1: get and insert agree with a reference map: get(k) is the value of the
\* latest insert(k, v) not since removed (None when there is none), for every
\* key and the empty key, and insert(k, v) returns what get(k) returned before.
C1_GetInsertAgreeWithMap ==
    \A k \in Keys :
        LET before == get(root, k)
        IN /\ before = ref[k]
           /\ \A v \in Values :
                  LET r == insert(root, k, v)
                  IN /\ r.ret = before
                     /\ get(r.root, k) = Some(v)

C1_Witness ==
    /\ removed
    /\ ref[<<>>] # None
    /\ \E k \in Keys, v \in Values :
           /\ k # <<>>
           /\ ref[k] # None /\ ref[k] # Some(v)
           /\ insert(root, k, v).ret = ref[k]

\* C2 (as stated): len() is the number of distinct keys ever inserted minus
\* the number of removes that returned a value.
C2_LenIsEverInsertedMinusRemoved ==
    len(root) = Cardinality(ever) - nRemoved

\* C2 (amended): len() is the number of inserts that returned None minus the
\* number of removes that returned a value, and an insert of a stored key
\* leaves len() as it was.
C2_LenIsNewInsertsMinusRemoved ==
    /\ len(root) = count
    /\ \A k \in Keys, v \in Values :
           get(root, k) # None => len(insert(root, k, v).root) = len(root)

C2_Witness ==
    /\ nRemoved >= 1
    /\ len(root) >= 1
    /\ Cardinality(ever) - nRemoved < len(root)

\* C3: where k is stored with value v, remove(k) returns v, get(k) is then
\* None and len() one less; a second remove(k) returns None, len() unchanged.
C3_RemoveRoundTrip ==
    \A k \in Stored :
        LET r == remove(root, k)
            again == remove(r.root, k)
        IN /\ r.ret = ref[k]
           /\ get(r.root, k) = None
           /\ len(r.root) = len(root) - 1
           /\ again.ret = None
           /\ len(again.root) = len(r.root)

C3_Witness ==
    /\ removed
    /\ \E k \in Stored :
           /\ Deref(root, SearchPos(root, k).node).children # <<>>
           /\ remove(root, k).ret = ref[k]
    /\ \E k \in Stored :
           /\ Deref(root, SearchPos(root, k).node).children = <<>>
           /\ remove(root, k).ret = ref[k]

\* C4: remove(k) deletes only nodes on the path to k that are left without
\* value and children, from k's node upward as far as the first ancestor that
\* keeps a value or a child; every other node keeps segment, value and
\* children, so get(k2) is unchanged for k2 # k; for k not stored it returns
\* None and changes nothing.
C4_Frame(t, B, t2, k) ==
    LET A == NodesUnder(t2, <<>>)
        keysB == {n.key : n \in B}
        keysA == {n.key : n \in A}
        D == keysB \ keysA
    IN /\ keysA \subseteq keysB
       /\ D # {} => k \in D
       /\ \A b \in B :
              IF b.key \in D
              THEN /\ IsPrefix(b.key, k)
                   /\ b.data = None \/ b.key = k
                   /\ b.kids \subseteq D
              ELSE \E a \in A :
                       /\ a.key = b.key
                       /\ a.segment = b.segment
                       /\ a.data = (IF b.key = k THEN None ELSE b.data)
                       /\ a.kids = b.kids \ D
       /\ \A a \in A :
              a.key # <<>> /\ IsPrefix(a.key, k) /\ a.data = None /\ a.kids = {}
                  => \E b \in B : b.key = a.key /\ b.data = None /\ b.kids = {}
       /\ \A k2 \in Keys \ {k} : get(t2, k2) = get(t, k2)

C4_RemoveDisturbsOnlyEmptyChain ==
    LET B == NodesUnder(root, <<>>)
    IN \A k \in Keys :
           LET r == remove(root, k)
           IN IF k \in Stored
              THEN C4_Frame(root, B, r.root, k)
              ELSE r.ret = None /\ r.root = root

C4_Witness ==
    /\ len(root) >= 2
    /\ \E k \in Stored :
           LET B == NodesUnder(root, <<>>)
               A == NodesUnder(remove(root, k).root, <<>>)
           IN Cardinality(B) = Cardinality(A) + 2

\* C5: prefix_len(p) is the number of stored keys that have p as a prefix,
\* for every p: len() for the empty p, 0 for a p longer than every stored
\* key, and all stored keys below for a p that ends at a valueless node or
\* inside a segment.
C5_PrefixLenCountsKeys ==
    /\ \A p \in Probes :
           prefix_len(root, p) = Cardinality({k \in Stored : IsPrefix(p, k)})
    /\ prefix_len(root, <<>>) = len(root)

C5_Witness ==
    /\ removed
    /\ \E p \in Probes :
           /\ ~SearchPos(root, p).found
           /\ SearchPos(root, p).pos.type = "Edge"
           /\ prefix_len(root, p) = 1
    /\ \E p \in Probes :
           /\ p # <<>>
           /\ ~SearchPos(root, p).found
           /\ SearchPos(root, p).pos.type = "Leaf"
           /\ prefix_len(root, p) = 1

\* C6: entry(k).or_insert(v) on a key not stored stores v under k (get(k) is
\* v, len() one more) and returns a reference to v, at each of the positions
\* Child, Edge and Leaf; on a stored key it changes nothing in the tree and
\* returns a reference to the value stored.
C6_OrInsertContract ==
    LET n == len(root)
    IN \A k \in Keys :
           LET e == entry(root, k)
           IN \A v \in Values :
                  LET r == Entry_or_insert(root, e, v)
                  IN IF ref[k] = None
                     THEN /\ get(r.root, k) = Some(v)
                          /\ len(r.root) = n + 1
                          /\ Deref(r.root, r.at).data = Some(v)
                     ELSE /\ r.root = root
                          /\ Deref(r.root, r.at).data = ref[k]

C6_Witness ==
    /\ Stored # {}
    /\ \A type \in {"Child", "Edge", "Leaf"} :
           \E k \in Keys, v \in Values :
               /\ ~SearchPos(root, k).found
               /\ SearchPos(root, k).pos.type = type
               /\ get(Entry_or_insert(root, entry(root, k), v).root, k) = Some(v)

\* C7: is_empty() holds exactly when no key is stored (len() = 0), and every
\* node but the root holds a value or has a child.
C7_EmptyIffNoKeyStored ==
    /\ is_empty(root) <=> Stored = {}
    /\ is_empty(root) <=> len(root) = 0
    /\ \A n \in NonRootNodes(root) : n.data # None \/ n.children # <<>>

C7_Witness ==
    /\ removed
    /\ is_empty(root)

\* C8: in every node the children are strictly ascending by the first byte
\* of their segment, every segment but the root's is non-empty, and the
\* root's segment is empty.
C8_BranchingInvariant ==
    /\ root.segment = <<>>
    /\ \A n \in NonRootNodes(root) : n.segment # <<>>
    /\ \A n \in {root} \cup NonRootNodes(root) :
           \A i \in 1..(Len(n.children) - 1) :
               n.children[i].segment[1] < n.children[i + 1].segment[1]

C8_Witness ==
    /\ removed
    /\ Len(root.children) >= 2
    /\ \E n \in NonRootNodes(root) : Len(n.children) = 2

Compact(t) ==
    \A n \in NonRootNodes(t) : ~(n.data = None /\ Len(n.children) = 1)

\* C9 (as stated): after any insert and remove calls no node but the root
\* is without a value and has exactly one child.
C9_AlwaysCompact == Compact(root)

\* C9 (amended): as long as no remove has returned a value, no node but the
\* root is without a value and has exactly one child.
C9_CompactUntilRemove == ~removed => Compact(root)

C9_Witness ==
    /\ ~removed
    /\ \E n \in NonRootNodes(root) : n.data = None /\ Len(n.children) = 2

\* C10: entry(k).key() returns the bytes of k, for an Occupied entry and for
\* a Vacant one at each of the positions Child, Edge and Leaf.
C10_EntryKeyIsKey ==
    \A k \in Keys : Entry_key(entry(root, k)) = k
====
